---- MODULE Spec2Model ----
(***************************************************************************)
(* AgileQuery: the clause parsers (parseSort, parseGroupBy, parseJoins,    *)
(* parsecolumns) and the statement builders (selectQuery in its readable   *)
(* and minified builds, insertQuery, updateSQL, deleteSQL) as a state      *)
(* machine.                                                                *)
(*                                                                         *)
(* A JavaScript string is modelled as the sequence of its lexical tokens   *)
(* (keywords, blanks, punctuation, caller-supplied atoms): concatenation   *)
(* is \o, the empty string is << >>, and a string is truthy exactly when   *)
(* it is not << >>.  The other JavaScript values are tagged records.  An   *)
(* object is the ordered sequence of its entries (Object.entries order).   *)
(* The non-ASCII marks that open the error messages of the source are      *)
(* left out of the message text, and their backquotes are apostrophes.     *)
(***************************************************************************)
EXTENDS Integers, Sequences, FiniteSets, TLC

VARIABLES pc, fn, arg, ret

vars == <<pc, fn, arg, ret>>

(***************************************************************************)
(* Bounds of the model.                                                    *)
(***************************************************************************)
MaxLen == 2
MaxDir == 2
MaxLimit == 1
MaxRows == 2

(***************************************************************************)
(* JavaScript values.                                                      *)
(***************************************************************************)
Undef == [t |-> "undefined"]
Null == [t |-> "null"]
Str(s) == [t |-> "string", s |-> s]
Num(n) == [t |-> "number", n |-> n]
Bool(b) == [t |-> "boolean", b |-> b]
Arr(a) == [t |-> "array", a |-> a]
Obj(e) == [t |-> "object", e |-> e]
Entry(k, v) == [k |-> k, v |-> v]

IsStr(x) == x.t = "string"
IsNum(x) == x.t = "number"
IsArr(x) == x.t = "array"
IsObj(x) == x.t = "object"

\* ToBoolean: what `if (x)`, `!x`, `x ? a : b`, `x || y` and `x && y` test.
Truthy(x) ==
  CASE x.t = "undefined" -> FALSE
    [] x.t = "null" -> FALSE
    [] x.t = "string" -> Len(x.s) > 0
    [] x.t = "number" -> x.n # 0
    [] x.t = "boolean" -> x.b
    [] OTHER -> TRUE

\* `${x}` in a template literal, for the scalar values the builders meet.
Interp(x) ==
  CASE x.t = "string" -> x.s
    [] x.t = "number" -> <<ToString(x.n)>>
    [] x.t = "boolean" -> <<IF x.b THEN "true" ELSE "false">>
    [] x.t = "null" -> <<"null">>
    [] OTHER -> <<"undefined">>

\* key in obj
HasKey(o, k) == \E i \in 1..Len(o.e) : o.e[i].k = k

\* obj[k] (undefined when the key is absent)
Get(o, k) ==
  IF HasKey(o, k)
    THEN o.e[CHOOSE i \in 1..Len(o.e) : o.e[i].k = k].v
    ELSE Undef

RECURSIVE FilterKeys(_, _)
\* Object.entries(o).filter(([key]) => key is not in drop), on the entry sequence
FilterKeys(e, drop) ==
  IF Len(e) = 0 THEN <<>>
  ELSE IF e[1].k \in drop THEN FilterKeys(Tail(e), drop)
  ELSE <<e[1]>> \o FilterKeys(Tail(e), drop)

RECURSIVE JoinWith(_, _)
\* Array.prototype.join on an array of strings
JoinWith(a, sep) ==
  IF Len(a) = 0 THEN <<>>
  ELSE IF Len(a) = 1 THEN a[1]
  ELSE a[1] \o sep \o JoinWith(Tail(a), sep)

RECURSIVE FilterBoolean(_)
\* Array.prototype.filter(Boolean) on an array of strings
FilterBoolean(a) ==
  IF Len(a) = 0 THEN <<>>
  ELSE IF Len(a[1]) = 0 THEN FilterBoolean(Tail(a))
  ELSE <<a[1]>> \o FilterBoolean(Tail(a))

CommaSp == <<",", " ">>
Sp == <<" ">>

IsBlank(tok) == tok \in {" ", "\n            ", "\n        "}

RECURSIVE TrimStart(_)
TrimStart(s) ==
  IF Len(s) = 0 THEN s
  ELSE IF IsBlank(s[1]) THEN TrimStart(Tail(s))
  ELSE s

RECURSIVE TrimEnd(_)
TrimEnd(s) ==
  IF Len(s) = 0 THEN s
  ELSE IF IsBlank(s[Len(s)]) THEN TrimEnd(SubSeq(s, 1, Len(s) - 1))
  ELSE s

\* String.prototype.trim
Trim(s) == TrimEnd(TrimStart(s))

\* The outcome of a call: a returned string, or a thrown error with its message.
Return(s) == [ok |-> TRUE, v |-> s]
Throw(m) == [ok |-> FALSE, v |-> m]

(***************************************************************************)
(* parseSort                                                               *)
(***************************************************************************)
\* a direction test that takes every positive number for ascending
DirectionPositive(d) == IF IsNum(d) /\ d.n >= 1 THEN "ASC" ELSE "DESC"

\* direction === 1 ? "ASC" : "DESC"
Direction(d) == IF IsNum(d) /\ d.n = 1 THEN "ASC" ELSE "DESC"

\* Object.entries(columns).map(([column, direction]) => ...), before the join
SortInner(table, e) ==
  [i \in 1..Len(e) |-> <<table, ".", e[i].k, " ", Direction(e[i].v)>>]

\* the callback of entries.map in parseSort
SortEntry(r) ==
  IF IsNum(r.v) THEN <<r.k, " ", Direction(r.v)>>
  ELSE IF IsObj(r.v) THEN JoinWith(SortInner(r.k, r.v.e), CommaSp)
  ELSE <<>>

parseSort(sort) ==
  IF ~Truthy(sort) THEN <<>>
  ELSE IF IsStr(sort) THEN <<" ", "ORDER BY", " ">> \o sort.s
  ELSE IF IsObj(sort) /\ Len(sort.e) > 0
    THEN <<" ", "ORDER BY", " ">>
           \o JoinWith(FilterBoolean([i \in 1..Len(sort.e) |-> SortEntry(sort.e[i])]),
                       CommaSp)
  ELSE <<>>

(***************************************************************************)
(* parseGroupBy and parsecolumns                                           *)
(***************************************************************************)
\* columns.map(column => `${table}.${column}`)
Qualified(table, cols) == [i \in 1..Len(cols) |-> <<table, ".">> \o cols[i]]

\* what one entry of the mapping pushes on `clauses`
ClausesOfEntry(e) ==
  IF e.k = "extra"
    THEN <<IF IsArr(e.v) THEN JoinWith(e.v.a, CommaSp) ELSE <<e.k>>>>
  ELSE IF IsArr(e.v) THEN Qualified(e.k, e.v.a)
  ELSE <<>>

RECURSIVE Clauses(_)
\* `clauses` after Object.entries(...).forEach
Clauses(e) ==
  IF Len(e) = 0 THEN <<>>
  ELSE ClausesOfEntry(e[1]) \o Clauses(Tail(e))

parseGroupBy(groupBy) ==
  IF ~Truthy(groupBy) THEN <<>>
  ELSE IF IsStr(groupBy) THEN <<" ", "GROUP BY", " ">> \o groupBy.s
  ELSE IF IsArr(groupBy) THEN <<" ", "GROUP BY", " ">> \o JoinWith(groupBy.a, CommaSp)
  ELSE IF IsObj(groupBy)
    THEN IF Len(Clauses(groupBy.e)) > 0
           THEN <<" ", "GROUP BY", " ">> \o JoinWith(Clauses(groupBy.e), CommaSp)
           ELSE <<>>
  ELSE <<>>

parsecolumns(columns) ==
  IF ~Truthy(columns) THEN <<>>
  ELSE IF IsStr(columns) THEN columns.s
  ELSE IF IsArr(columns) THEN JoinWith(columns.a, CommaSp)
  ELSE IF IsObj(columns)
    THEN IF Len(Clauses(columns.e)) > 0
           THEN JoinWith(Clauses(columns.e), CommaSp)
           ELSE <<>>
  ELSE <<>>

(***************************************************************************)
(* parseJoins                                                              *)
(***************************************************************************)
Reserved == {"type", "on", "operator"}

\* const { operator = '=' } = join: the default replaces undefined only
OperatorOf(join) ==
  IF Get(join, "operator").t = "undefined" THEN Str(<<"=">>) ELSE Get(join, "operator")

\* `${table || tableEntries?.[0]?.[0]}`
OnTable(join, tableEntries) ==
  IF Truthy(Get(join, "table")) THEN Interp(Get(join, "table")) ELSE <<tableEntries[1].k>>

\* ` ${type} ${table2} ON ${table1}.${column1} ${operator} ${table2}.${column2}`
TwoTables(type, operator, tableEntries) ==
  <<" ">> \o type \o <<" ", tableEntries[2].k, " ", "ON", " ", tableEntries[1].k, ".">>
    \o Interp(tableEntries[1].v) \o <<" ">> \o operator
    \o <<" ", tableEntries[2].k, ".">> \o Interp(tableEntries[2].v)

\* Case 1 of the map callback: the descriptor has a `type` key
JoinWithType(join) ==
  LET tableEntries == FilterKeys(join.e, Reserved)
      on == Get(join, "on")
  IN IF Truthy(on) /\ Len(tableEntries) > 0
       THEN Return(<<" ">> \o Interp(Get(join, "type")) \o <<" ">>
                     \o OnTable(join, tableEntries) \o <<" ", "ON", " ">> \o Interp(on))
     ELSE IF Len(tableEntries) # 2
       THEN Throw(<<"JOIN requires exactly two tables for a relation, but found ",
                    ToString(Len(tableEntries)), " or condition not found">>)
     ELSE Return(TwoTables(Interp(Get(join, "type")), Interp(OperatorOf(join)),
                           tableEntries))

\* Case 2 of the map callback: the shorthand form
JoinShorthand(join) ==
  LET tableEntries == FilterKeys(join.e, Reserved)
  IN IF HasKey(join, "on") /\ Len(tableEntries) > 0
       THEN Return(<<" ", "JOIN", " ">> \o OnTable(join, tableEntries)
                     \o <<" ", "ON", " ">> \o Interp(Get(join, "on")))
     ELSE IF Len(tableEntries) # 2
       THEN Throw(<<"JOIN shorthand requires exactly two tables, but found ",
                    ToString(Len(tableEntries)), " or condition not found">>)
     ELSE Return(TwoTables(<<"JOIN">>, <<"=">>, tableEntries))

\* the callback of joins.map
JoinClause(join) == IF HasKey(join, "type") THEN JoinWithType(join) ELSE JoinShorthand(join)

RECURSIVE JoinClauses(_)
\* joins.map(...).join(" "): the first descriptor that throws ends the call
JoinClauses(js) ==
  IF Len(js) = 0 THEN Return(<<>>)
  ELSE LET first == JoinClause(js[1])
           rest == JoinClauses(Tail(js))
       IN IF ~first.ok THEN first
          ELSE IF ~rest.ok THEN rest
          ELSE IF Len(js) = 1 THEN first
          ELSE Return(first.v \o Sp \o rest.v)

parseJoins(joins) ==
  IF ~Truthy(joins) \/ Len(joins.a) = 0 THEN Return(<<>>)
  ELSE JoinClauses(joins.a)

(***************************************************************************)
(* selectQuery                                                             *)
(***************************************************************************)
\* aggregates_alias[func] || func
AggregatesAlias(func) ==
  CASE func = "MIN" -> "minimum"
    [] func = "MAX" -> "maximum"
    [] func = "SUM" -> "summation"
    [] func = "COUNT" -> "count"
    [] func = "AVG" -> "average"
    [] OTHER -> func

\* recursiveCTEQuery
RecursiveCTEQuery(recursiveCTE) ==
  IF Truthy(recursiveCTE)
    THEN <<"WITH RECURSIVE", " ">> \o Interp(Get(recursiveCTE, "alias"))
           \o <<" ", "AS", " ", "(", "\n            ">>
           \o Interp(Get(recursiveCTE, "baseCase"))
           \o <<"\n            ", "UNION ALL", "\n            ">>
           \o Interp(Get(recursiveCTE, "recursiveCase"))
           \o <<"\n        ", ")", " ">>
    ELSE <<>>

\* main_table
MainTable(config) ==
  IF Truthy(config.recursiveCTE) THEN Get(config.recursiveCTE, "alias") ELSE config.table

\* `(${subQuery.query})${subQuery.as ? ` AS ${subQuery.as}` : ""}`
SubQueryString(subQuery) ==
  <<"(">> \o Interp(Get(subQuery, "query")) \o <<")">>
    \o (IF Truthy(Get(subQuery, "as"))
          THEN <<" ", "AS", " ">> \o Interp(Get(subQuery, "as")) ELSE <<>>)

\* subQueryStatement
SubQueryStatement(subQueries) ==
  JoinWith([i \in 1..Len(subQueries.a) |-> SubQueryString(subQueries.a[i])], CommaSp)

\* the callback of aggregates.map
AggString(agg) ==
  LET functions == FilterKeys(agg.e, {"alias"})
  IN IF Truthy(Get(agg, "alias"))
       THEN JoinWith([i \in 1..Len(functions) |->
                        <<functions[i].k, "(">> \o Interp(functions[i].v) \o <<")">>],
                     CommaSp)
              \o <<" ", "AS", " ">> \o Interp(Get(agg, "alias"))
       ELSE JoinWith([i \in 1..Len(functions) |->
                        <<functions[i].k, "(">> \o Interp(functions[i].v)
                          \o <<")", " ", "AS", " ", AggregatesAlias(functions[i].k)>>],
                     CommaSp)

\* `select` after the columns branch
SelectColumns(config) ==
  IF Truthy(config.columns) THEN parsecolumns(config.columns) ELSE <<>>

\* `select` after the subQueries branch
SelectSubQueries(config) ==
  LET select == SelectColumns(config)
  IN IF Truthy(config.subQueries)
       THEN select \o (IF Len(select) > 0 THEN CommaSp ELSE <<>>) \o Sp
              \o SubQueryStatement(config.subQueries)
       ELSE select

\* `select` after the aggregates branch and its else
SelectList(config) ==
  LET select == SelectSubQueries(config)
  IN IF Truthy(config.aggregates)
       THEN select \o (IF Len(select) > 0 THEN CommaSp ELSE <<>>)
              \o JoinWith([i \in 1..Len(config.aggregates.a) |->
                             AggString(config.aggregates.a[i])], CommaSp)
       ELSE <<"*">>

\* ` LIMIT ${limitSkip.limit}` and ` OFFSET ${limitSkip.skip}`
LimitOffset(limitSkip) ==
  IF Truthy(limitSkip)
    THEN (IF Truthy(Get(limitSkip, "limit"))
            THEN <<" ", "LIMIT", " ">> \o Interp(Get(limitSkip, "limit")) ELSE <<>>)
           \o (IF Truthy(Get(limitSkip, "skip"))
                 THEN <<" ", "OFFSET", " ">> \o Interp(Get(limitSkip, "skip")) ELSE <<>>)
    ELSE <<>>

selectQuery(config) ==
  LET head == RecursiveCTEQuery(config.recursiveCTE) \o <<"SELECT", " ">>
                \o (IF Truthy(config.distinct) THEN <<"DISTINCT", " ">> ELSE <<>>)
                \o SelectList(config) \o <<" ", "FROM", " ">> \o Interp(MainTable(config))
      joins == IF Truthy(config.joins) THEN parseJoins(config.joins) ELSE Return(<<>>)
  IN IF ~joins.ok THEN joins
     ELSE Return(Trim(
            head \o joins.v
              \o (IF Truthy(config.where)
                    THEN <<" ", "WHERE", " ">> \o Interp(config.where) ELSE <<>>)
              \o (IF Truthy(config.groupBy) THEN parseGroupBy(config.groupBy) ELSE <<>>)
              \o (IF Truthy(config.having)
                    THEN <<" ", "HAVING", " ">> \o Interp(config.having) ELSE <<>>)
              \o (IF Truthy(config.sort) THEN parseSort(config.sort) ELSE <<>>)
              \o LimitOffset(config.limitSkip)))

(***************************************************************************)
(* selectQuery, the minified build                                         *)
(***************************************************************************)
\* r&&(I=(0,utils_1.parseColumns)(r)): utils.js exports parsecolumns, so
\* utils_1.parseColumns is undefined and calling it throws a TypeError
MinifiedColumns(config) ==
  IF Truthy(config.columns)
    THEN Throw(<<"TypeError: (0 , utils_1.parseColumns) is not a function">>)
    ELSE Return(<<>>)

\* `${I||"*"}`, I being the text after the subQueries and aggregates branches
MinifiedSelectList(config) ==
  LET I0 == MinifiedColumns(config).v
      I1 == IF Truthy(config.subQueries)
              THEN I0 \o (IF Len(I0) > 0 THEN CommaSp ELSE <<>>) \o Sp
                     \o SubQueryStatement(config.subQueries)
              ELSE I0
      I2 == IF Truthy(config.aggregates)
              THEN I1 \o (IF Len(I1) > 0 THEN CommaSp ELSE <<>>)
                     \o JoinWith([i \in 1..Len(config.aggregates.a) |->
                                    AggString(config.aggregates.a[i])], CommaSp)
              ELSE I1
  IN IF Len(I2) > 0 THEN I2 ELSE <<"*">>

selectQueryMinified(config) ==
  IF ~MinifiedColumns(config).ok THEN MinifiedColumns(config)
  ELSE
    LET head == RecursiveCTEQuery(config.recursiveCTE) \o <<"SELECT", " ">>
                  \o (IF Truthy(config.distinct) THEN <<"DISTINCT", " ">> ELSE <<>>)
                  \o MinifiedSelectList(config) \o <<" ", "FROM", " ">>
                  \o Interp(MainTable(config))
        joins == IF Truthy(config.joins) THEN parseJoins(config.joins) ELSE Return(<<>>)
    IN IF ~joins.ok THEN joins
       ELSE Return(Trim(
              head \o joins.v
                \o (IF Truthy(config.where)
                      THEN <<" ", "WHERE", " ">> \o Interp(config.where) ELSE <<>>)
                \o (IF Truthy(config.groupBy) THEN parseGroupBy(config.groupBy) ELSE <<>>)
                \o (IF Truthy(config.having)
                      THEN <<" ", "HAVING", " ">> \o Interp(config.having) ELSE <<>>)
                \o (IF Truthy(config.sort) THEN parseSort(config.sort) ELSE <<>>)
                \o LimitOffset(config.limitSkip)))

(***************************************************************************)
(* deleteSQL                                                               *)
(***************************************************************************)
deleteSQL(params) ==
  IF ~Truthy(params.table) THEN Throw(<<"The 'table' parameter is required.">>)
  ELSE IF ~Truthy(params.where) THEN Throw(<<"The 'where' parameter is required.">>)
  ELSE LET joins == IF Truthy(params.joins) THEN parseJoins(params.joins) ELSE Return(<<>>)
       IN IF ~joins.ok THEN joins
          ELSE Return(
                 <<"DELETE", " ">> \o Interp(params.table) \o <<" ", "FROM", " ">>
                   \o Interp(params.table) \o joins.v
                   \o <<" ", "WHERE", " ">> \o Interp(params.where)
                   \o (IF Truthy(params.sort) THEN parseSort(params.sort) ELSE <<>>)
                   \o (IF Truthy(params.limit)
                         THEN <<" ", "LIMIT", " ">> \o Interp(params.limit) ELSE <<>>))

(***************************************************************************)
(* insertQuery                                                             *)
(***************************************************************************)
\* JSON.stringify of an element of an array of scalars
JSONStringify(x) ==
  CASE x.t = "string" -> <<"\"">> \o x.s \o <<"\"">>
    [] x.t = "number" -> <<ToString(x.n)>>
    [] x.t = "boolean" -> <<IF x.b THEN "true" ELSE "false">>
    [] OTHER -> <<"null">>

\* Object.keys(row).join(', ')
KeysText(row) == JoinWith([i \in 1..Len(row.e) |-> <<row.e[i].k>>], CommaSp)

\* JSON.stringify(Object.values(row)).slice(1, -1)
ValuesText(row) == JoinWith([i \in 1..Len(row.e) |-> JSONStringify(row.e[i].v)], <<",">>)

\* `date`: one CURRENT_TIMESTAMP per date field, undefined when there is none
HasDate(dateFields) == IsArr(dateFields) /\ Len(dateFields.a) > 0
DateText(dateFields) ==
  JoinWith([i \in 1..Len(dateFields.a) |-> <<"CURRENT_TIMESTAMP">>], CommaSp)

\* `columns`, from the first row of a sequence or from the single row
InsertColumns(row, dateFields) ==
  <<"(">> \o KeysText(row)
    \o (IF HasDate(dateFields) THEN <<",">> \o JoinWith(dateFields.a, CommaSp) ELSE <<>>)
    \o <<")">>

\* the tuple of one row of a sequence
RowTuple(row, dateFields) ==
  <<"(">> \o ValuesText(row)
    \o (IF HasDate(dateFields) THEN CommaSp \o DateText(dateFields) ELSE <<>>)
    \o <<")">>

\* `values`
InsertValues(insertData, dateFields) ==
  IF IsArr(insertData)
    THEN JoinWith([i \in 1..Len(insertData.a) |-> RowTuple(insertData.a[i], dateFields)],
                  CommaSp)
    ELSE <<"(">> \o ValuesText(insertData)
           \o (IF HasDate(dateFields) THEN <<",">> \o DateText(dateFields) ELSE <<>>)
           \o <<")">>

\* a statement form in which the duplicate-key update is chosen before IGNORE
InsertStatementUpdateFirst(params, columns, values) ==
  LET onDuplicateUpdateFields ==
        IF params.onDuplicateUpdateFields.t = "undefined"
          THEN Arr(<<>>) ELSE params.onDuplicateUpdateFields
      into == Interp(params.table) \o Sp \o columns \o <<" ", "VALUES", " ">> \o values
  IN IF Len(onDuplicateUpdateFields.a) > 0
       THEN <<"INSERT INTO", " ">> \o into \o <<" ", "ON DUPLICATE KEY UPDATE", " ">>
              \o JoinWith([i \in 1..Len(onDuplicateUpdateFields.a) |->
                             onDuplicateUpdateFields.a[i] \o <<" ", "=", " ", "VALUES", "(">>
                               \o onDuplicateUpdateFields.a[i] \o <<")">>],
                          CommaSp)
     ELSE IF Truthy(params.uniqueColumn) THEN <<"INSERT IGNORE INTO", " ">> \o into
     ELSE <<"INSERT INTO", " ">> \o into

\* the statement form: INSERT IGNORE, ON DUPLICATE KEY UPDATE, or plain
InsertStatement(params, columns, values) ==
  LET onDuplicateUpdateFields ==
        IF params.onDuplicateUpdateFields.t = "undefined"
          THEN Arr(<<>>) ELSE params.onDuplicateUpdateFields
      into == Interp(params.table) \o Sp \o columns \o <<" ", "VALUES", " ">> \o values
  IN IF Truthy(params.uniqueColumn) THEN <<"INSERT IGNORE INTO", " ">> \o into
     ELSE IF Len(onDuplicateUpdateFields.a) > 0
       THEN <<"INSERT INTO", " ">> \o into \o <<" ", "ON DUPLICATE KEY UPDATE", " ">>
              \o JoinWith([i \in 1..Len(onDuplicateUpdateFields.a) |->
                             onDuplicateUpdateFields.a[i] \o <<" ", "=", " ", "VALUES", "(">>
                               \o onDuplicateUpdateFields.a[i] \o <<")">>],
                          CommaSp)
     ELSE <<"INSERT INTO", " ">> \o into

insertQuery(params) ==
  IF ~Truthy(params.insertData) THEN Throw(<<"Insert data array is empty">>)
  ELSE IF IsArr(params.insertData) /\ Len(params.insertData.a) = 0
    \* Object.keys(insertData[0]) of an empty array
    THEN Throw(<<"TypeError: Cannot convert undefined or null to object">>)
  ELSE Return(InsertStatement(
                params,
                InsertColumns(IF IsArr(params.insertData)
                                THEN params.insertData.a[1] ELSE params.insertData,
                              params.dateFields),
                InsertValues(params.insertData, params.dateFields)))

(***************************************************************************)
(* updateSQL                                                               *)
(***************************************************************************)
\* a default of the parameter list: it replaces undefined only
Default(x, d) == IF x.t = "undefined" THEN d ELSE x

\* `${JSON.stringify(x)}`: JSON.stringify(undefined) is undefined
StringifyValue(x) == IF x.t = "undefined" THEN <<"undefined">> ELSE JSONStringify(x)

\* value.case.map(...).join(' ')
CaseStatement(cases) ==
  JoinWith([i \in 1..Len(cases) |->
              <<"WHEN", " ">> \o Interp(Get(cases[i], "when"))
                \o <<" ", "THEN", " ">> \o StringifyValue(Get(cases[i], "then"))],
           Sp)

\* the callback of Object.entries(updateData).map, for a CASE descriptor, a
\* number or boolean, a string, and null (whose column_value?.trim() is undefined)
UpdateEntry(column, value) ==
  IF IsObj(value) /\ HasKey(value, "case")
    THEN <<column, " ", "=", " ", "CASE", " ">> \o CaseStatement(Get(value, "case").a)
           \o <<" ", "ELSE", " ">> \o StringifyValue(Get(value, "default"))
           \o <<" ", "END">>
  ELSE IF IsNum(value) \/ value.t = "boolean"
    THEN <<column, " ", "=", " ">> \o Interp(value)
  ELSE <<column, " ", "=", " ">>
         \o StringifyValue(IF IsStr(value) THEN Str(Trim(value.s)) ELSE Undef)

\* Object.entries(updateData).map(...).join(',')
UpdateDataInfo(updateData) ==
  JoinWith([i \in 1..Len(updateData.e) |->
              UpdateEntry(updateData.e[i].k, updateData.e[i].v)],
           <<",">>)

\* Object.entries(o).map(([column, calculation]) => `${column} = ${calculation}`).join(', ')
Calculations(o) ==
  JoinWith([i \in 1..Len(o.e) |-> <<o.e[i].k, " ", "=", " ">> \o Interp(o.e[i].v)], CommaSp)

\* columns.map(column => `${column} = NULL`).join(', '), and the same with DEFAULT
FixedAssignments(columns, word) ==
  JoinWith([i \in 1..Len(columns) |-> columns[i] \o <<" ", "=", " ", word>>], CommaSp)

\* a separator before every group, whatever stands before it
AppendGroupAlways(updateInfo, group) == updateInfo \o CommaSp \o group

\* updateInfo += updateInfo ? `, ${group}` : group
AppendGroup(updateInfo, group) ==
  IF Len(updateInfo) > 0 THEN updateInfo \o CommaSp \o group ELSE group

\* `updateInfo` when the statement is built
UpdateInfo(params) ==
  LET setCalculations == Default(params.setCalculations, Obj(<<>>))
      fromSubQuery == Default(params.fromSubQuery, Obj(<<>>))
      nullValues == Default(params.nullValues, Arr(<<>>))
      defaultValues == Default(params.defaultValues, Arr(<<>>))
      u0 == UpdateDataInfo(Default(params.updateData, Obj(<<>>)))
      u1 == IF Len(setCalculations.e) > 0 THEN AppendGroup(u0, Calculations(setCalculations)) ELSE u0
      u2 == IF Len(fromSubQuery.e) > 0 THEN AppendGroup(u1, Calculations(fromSubQuery)) ELSE u1
      u3 == IF Len(nullValues.a) > 0
              THEN AppendGroup(u2, FixedAssignments(nullValues.a, "NULL")) ELSE u2
  IN IF Len(defaultValues.a) > 0
       THEN AppendGroup(u3, FixedAssignments(defaultValues.a, "DEFAULT")) ELSE u3

\* the statement, once table and where are there
UpdateStatement(params) ==
  LET joinStatements == parseJoins(Default(params.joins, Arr(<<>>)))
  IN IF ~joinStatements.ok THEN joinStatements
     ELSE Return(
            <<"UPDATE">> \o joinStatements.v \o <<" ">> \o Interp(params.table)
              \o <<" ", "SET", " ">> \o UpdateInfo(params)
              \o <<" ", "WHERE", " ">> \o Interp(params.where)
              \o (IF Truthy(params.sort) THEN parseSort(params.sort) ELSE <<>>)
              \o (IF Truthy(params.limit)
                    THEN <<" ", "LIMIT", " ">> \o Interp(params.limit) ELSE <<>>))

\* the required parameters tested after the joins are parsed
updateSQLJoinsFirst(params) ==
  IF ~parseJoins(Default(params.joins, Arr(<<>>))).ok THEN UpdateStatement(params)
  ELSE IF ~Truthy(Default(params.table, Str(<<>>)))
    THEN Throw(<<"The 'table' parameter is required.">>)
  ELSE IF ~Truthy(Default(params.where, Str(<<>>)))
    THEN Throw(<<"The 'where' parameter is required.">>)
  ELSE UpdateStatement(params)

updateSQL(params) ==
  IF ~Truthy(Default(params.table, Str(<<>>)))
    THEN Throw(<<"The 'table' parameter is required.">>)
  ELSE IF ~Truthy(Default(params.where, Str(<<>>)))
    THEN Throw(<<"The 'where' parameter is required.">>)
  ELSE UpdateStatement(params)

(***************************************************************************)
(* Inputs.                                                                 *)
(***************************************************************************)
SeqsUpTo(S, n) == UNION {[1..m -> S] : m \in 0..n}

\* the entry sequences that are objects: no key twice
DistinctKeys(e) == \A i, j \in 1..Len(e) : e[i].k = e[j].k => i = j

Entries(keys, vals, n) ==
  {e \in SeqsUpTo({Entry(k, v) : k \in keys, v \in vals}, n) : DistinctKeys(e)}

ColumnNames == {"a", "b"}
TableNames == {"t", "u"}

\* direction codes: 1 and -1 as documented, and the other numbers a caller can pass
Directions == {Num(d) : d \in -1..MaxDir}

SortColumns == {Obj(e) : e \in Entries(ColumnNames, Directions, MaxLen)}

SortSpecs ==
  {Undef, Str(<<"a DESC">>)}
    \cup {Obj(e) : e \in Entries(TableNames,
                                   Directions \cup SortColumns \cup {Str(<<"up">>)},
                                   Cardinality(TableNames))}

StringArrays == {Arr(a) : a \in SeqsUpTo({<<c>> : c \in ColumnNames}, MaxLen)}

\* a column or group-by specification: a raw string, a sequence of names, or a
\* mapping from table alias to sequence of names with the optional key `extra`
\* (a string or a sequence)
ColumnSpecs ==
  {Undef, Str(<<>>), Str(<<"a">>), Str(<<"a", ",", " ", "b">>)}
    \cup StringArrays
    \cup {Obj(e) : e \in Entries(TableNames \cup {"extra"},
                                   StringArrays \cup {Str(<<"COUNT(*) AS n">>)},
                                   Cardinality(TableNames) + 1)}

\* a key the caller left out of an object
Absent == [t |-> "absent"]
Opt(k, v) == IF v = Absent THEN <<>> ELSE <<Entry(k, v)>>

\* the keys of a descriptor other than type, on and operator, in any order:
\* table aliases with their column, and the `table` of an `on` condition
JoinTables ==
  {e \in Entries(TableNames \cup {"table"}, {Str(<<"id">>), Str(<<"w">>)},
                 Cardinality(TableNames) + 1) :
     \A i \in 1..Len(e) : (e[i].k = "table") <=> (e[i].v = Str(<<"w">>))}

\* a join descriptor: optional type, on and operator, and up to three other keys
\* (table -> column pairs, or the `table` of an `on` condition) in any order
JoinDescriptors ==
  {Obj(Opt("type", type) \o Opt("on", on) \o Opt("operator", operator) \o tables) :
     type \in {Absent, Str(<<"INNER JOIN">>)},
     on \in {Absent, Str(<<>>), Str(<<"t.id = u.id">>)},
     operator \in {Absent, Str(<<"<">>)},
     tables \in JoinTables}

\* the descriptors a second one is drawn from: two pairs, an `on` condition, one pair
JoinSamples ==
  {Obj(<<Entry("t", Str(<<"id">>)), Entry("u", Str(<<"t_id">>))>>),
   Obj(<<Entry("type", Str(<<"LEFT JOIN">>)), Entry("table", Str(<<"w">>)),
         Entry("on", Str(<<"t.id = w.id">>))>>),
   Obj(<<Entry("type", Str(<<"INNER JOIN">>)), Entry("t", Str(<<"id">>))>>)}

JoinSpecs ==
  {Undef, Arr(<<>>)}
    \cup {Arr(<<d>>) : d \in JoinDescriptors}
    \cup {Arr(<<d, e>>) : d \in JoinDescriptors, e \in JoinSamples}
    \cup {Arr(<<e, d>>) : d \in JoinDescriptors, e \in JoinSamples}

\* a selectQuery config with every optional field left out
SelectDefaults ==
  [distinct |-> Undef, sort |-> Undef, limitSkip |-> Undef, columns |-> Undef,
   subQueries |-> Undef, groupBy |-> Undef, recursiveCTE |-> Undef,
   aggregates |-> Undef, table |-> Str(<<"t">>), where |-> Undef, having |-> Undef,
   joins |-> Undef]

\* a deleteSQL parameter object with every optional field left out
DeleteDefaults ==
  [table |-> Str(<<"t">>), where |-> Str(<<"t.id > 1">>), joins |-> Undef,
   limit |-> Undef, sort |-> Undef]

SelColumns ==
  {Undef, Str(<<"a">>), Arr(<<>>), Arr(<<<<"a">>, <<"b">>>>),
   Obj(<<Entry("t", Arr(<<<<"a">>>>)), Entry("extra", Arr(<<<<"COUNT(*) AS n">>>>))>>)}

SelSubQueries ==
  {Undef, Arr(<<>>),
   Arr(<<Obj(<<Entry("query", Str(<<"SELECT 1">>))>>)>>),
   Arr(<<Obj(<<Entry("query", Str(<<"SELECT 1">>)), Entry("as", Str(<<"one">>))>>),
         Obj(<<Entry("query", Str(<<"SELECT 2">>))>>)>>)}

SelAggregates ==
  {Undef, Arr(<<>>),
   Arr(<<Obj(<<Entry("COUNT", Str(<<"id">>))>>)>>),
   Arr(<<Obj(<<Entry("SUM", Str(<<"x">>)), Entry("alias", Str(<<"s">>))>>),
         Obj(<<Entry("MEDIAN", Str(<<"y">>))>>)>>)}

SelJoins ==
  {Undef, Arr(<<>>),
   Arr(<<Obj(<<Entry("type", Str(<<"INNER JOIN">>)), Entry("t", Str(<<"id">>)),
               Entry("u", Str(<<"t_id">>))>>)>>)}

SelGroupBy == {Undef, Arr(<<<<"a">>>>), Obj(<<Entry("t", Arr(<<>>))>>)}

SelSort == {Undef, Obj(<<>>), Obj(<<Entry("a", Num(-1))>>)}

\* limitSkip: left out, or an object whose limit and skip are left out or numbers
Limits == {Absent} \cup {Num(n) : n \in 0..MaxLimit}

SelLimitSkip ==
  {Undef} \cup {Obj(Opt("limit", limit) \o Opt("skip", skip)) :
                  limit \in Limits, skip \in Limits}

SelRecursiveCTE ==
  {Undef,
   Obj(<<Entry("baseCase", Str(<<"SELECT 1 AS n">>)),
         Entry("recursiveCase", Str(<<"SELECT n + 1 FROM r WHERE n < 3">>)),
         Entry("alias", Str(<<"r">>))>>)}

SelectConfigs ==
  [distinct : {Undef, Bool(TRUE)}, sort : SelSort, limitSkip : SelLimitSkip,
   columns : SelColumns, subQueries : SelSubQueries, groupBy : SelGroupBy,
   recursiveCTE : SelRecursiveCTE, aggregates : SelAggregates,
   table : {Str(<<"t">>)}, where : {Undef, Str(<<>>), Str(<<"a > 1">>)},
   having : {Undef, Str(<<"COUNT(id) > 5">>)}, joins : SelJoins]

\* a row: a mapping from column to scalar, possibly with no column at all
InsertRows ==
  {Obj(e) : e \in Entries(ColumnNames, {Num(1), Str(<<"x">>), Null}, Cardinality(ColumnNames))}

InsertData ==
  {Undef, Null} \cup InsertRows \cup {Arr(rows) : rows \in SeqsUpTo(InsertRows, MaxRows)}

InsertParams ==
  [table : {Str(<<"t">>)}, insertData : InsertData,
   dateFields : {Undef, Arr(<<>>), Arr(<<<<"created_at">>>>),
                 Arr(<<<<"created_at">>, <<"updated_at">>>>)},
   uniqueColumn : {Undef, Str(<<"a">>)},
   onDuplicateUpdateFields : {Undef, Arr(<<<<"b">>>>), Arr(<<<<"a">>, <<"b">>>>)}]

\* table and where of updateSQL and deleteSQL: left out, null, empty, given
RequiredTable == {Undef, Str(<<>>), Str(<<"t">>)}
RequiredWhere == {Undef, Null, Str(<<>>), Str(<<"t.id > 1">>)}

\* the joins of an update or a delete: none, the documented `on` descriptor, and
\* two malformed descriptors (one pair only, with and without a type)
ModifyJoins ==
  {Undef, Arr(<<>>),
   Arr(<<Obj(<<Entry("type", Str(<<"INNER JOIN">>)), Entry("table", Str(<<"u">>)),
               Entry("on", Str(<<"t.u_id = u.id">>))>>)>>),
   Arr(<<Obj(<<Entry("type", Str(<<"INNER JOIN">>)), Entry("t", Str(<<"id">>))>>)>>),
   Arr(<<Obj(<<Entry("t", Str(<<"id">>))>>)>>)}

ModifySort == {Undef, Obj(<<>>), Obj(<<Entry("name", Num(-1))>>)}

\* limit?: string | number
ModifyLimit == {Undef, Str(<<"5">>)} \cup {Num(n) : n \in 0..MaxLimit}

\* a conditional descriptor: two branches and a default
CaseDescriptor ==
  Obj(<<Entry("case",
              Arr(<<Obj(<<Entry("when", Str(<<"p = 'M'">>)), Entry("then", Num(100))>>),
                    Obj(<<Entry("when", Str(<<"p = 'D'">>)),
                          Entry("then", Str(<<"y">>))>>)>>)),
        Entry("default", Num(50))>>)

\* updateData: left out, empty, and entries of every kind the declared type
\* admits (number, string with blanks around it, null, CASE descriptor) and a
\* boolean
UpdateDatas ==
  {Undef, Obj(<<>>),
   Obj(<<Entry("a", Num(1))>>),
   Obj(<<Entry("a", Str(<<" ", "x", " ">>)), Entry("b", Bool(TRUE))>>),
   Obj(<<Entry("a", Null)>>),
   Obj(<<Entry("a", CaseDescriptor), Entry("b", Num(2))>>)}

UpdateParams ==
  [table : RequiredTable, where : RequiredWhere, joins : ModifyJoins,
   updateData : UpdateDatas,
   setCalculations : {Undef, Obj(<<>>),
                      Obj(<<Entry("c", Str(<<"c + 1">>)), Entry("d", Str(<<"d * 2">>))>>)},
   fromSubQuery : {Undef, Obj(<<Entry("e", Str(<<"(SELECT 1)">>))>>)},
   nullValues : {Undef, Arr(<<>>), Arr(<<<<"n">>, <<"m">>>>)},
   defaultValues : {Undef, Arr(<<<<"f">>>>)},
   sort : ModifySort, limit : ModifyLimit]

DeleteParams ==
  [table : RequiredTable, where : RequiredWhere, joins : ModifyJoins,
   sort : ModifySort, limit : ModifyLimit]

\* the configs the two builds of selectQuery are run on: every columns,
\* subQueries and aggregates of SelectConfigs, with and without DISTINCT, and
\* joins that are absent, empty, well formed or malformed
BuildConfigs ==
  {[SelectDefaults EXCEPT !.columns = columns, !.subQueries = subQueries,
                          !.aggregates = aggregates, !.distinct = distinct,
                          !.joins = joins] :
     columns \in SelColumns, subQueries \in SelSubQueries, aggregates \in SelAggregates,
     distinct \in {Undef, Bool(TRUE)}, joins \in SelJoins \cup ModifyJoins}

(***************************************************************************)
(* The calls.  A call is independent of every other: the state is the      *)
(* function called, its argument, and the outcome once it has run.         *)
(***************************************************************************)
CallParseSort ==
  /\ pc = "call" /\ fn = "parseSort"
  /\ ret' = Return(parseSort(arg))
  /\ pc' = "done"
  /\ UNCHANGED <<fn, arg>>

InitSort == pc = "call" /\ fn = "parseSort" /\ arg \in SortSpecs /\ ret = Undef

NextSort == CallParseSort

SpecSort == InitSort /\ [][NextSort]_vars

CallParseColumns ==
  /\ pc = "call" /\ fn = "parsecolumns"
  /\ ret' = Return(parsecolumns(arg))
  /\ pc' = "done"
  /\ UNCHANGED <<fn, arg>>

CallParseGroupBy ==
  /\ pc = "call" /\ fn = "parseGroupBy"
  /\ ret' = Return(parseGroupBy(arg))
  /\ pc' = "done"
  /\ UNCHANGED <<fn, arg>>

InitColumns ==
  pc = "call" /\ fn \in {"parsecolumns", "parseGroupBy"} /\ arg \in ColumnSpecs /\ ret = Undef

NextColumns == CallParseColumns \/ CallParseGroupBy

SpecColumns == InitColumns /\ [][NextColumns]_vars

CallParseJoins ==
  /\ pc = "call" /\ fn = "parseJoins"
  /\ ret' = parseJoins(arg)
  /\ pc' = "done"
  /\ UNCHANGED <<fn, arg>>

CallSelectQuery ==
  /\ pc = "call" /\ fn = "selectQuery"
  /\ ret' = selectQuery(arg)
  /\ pc' = "done"
  /\ UNCHANGED <<fn, arg>>

CallDeleteSQL ==
  /\ pc = "call" /\ fn = "deleteSQL"
  /\ ret' = deleteSQL(arg)
  /\ pc' = "done"
  /\ UNCHANGED <<fn, arg>>

InitJoins ==
  /\ pc = "call" /\ ret = Undef
  /\ \E joins \in JoinSpecs :
       \/ fn = "parseJoins" /\ arg = joins
       \/ fn = "selectQuery" /\ arg = [SelectDefaults EXCEPT !.joins = joins]
       \/ fn = "deleteSQL" /\ arg = [DeleteDefaults EXCEPT !.joins = joins]

NextJoins == CallParseJoins \/ CallSelectQuery \/ CallDeleteSQL

SpecJoins == InitJoins /\ [][NextJoins]_vars

InitSelect == pc = "call" /\ fn = "selectQuery" /\ arg \in SelectConfigs /\ ret = Undef

NextSelect == CallSelectQuery

SpecSelect == InitSelect /\ [][NextSelect]_vars

CallInsertQuery ==
  /\ pc = "call" /\ fn = "insertQuery"
  /\ ret' = insertQuery(arg)
  /\ pc' = "done"
  /\ UNCHANGED <<fn, arg>>

InitInsert == pc = "call" /\ fn = "insertQuery" /\ arg \in InsertParams /\ ret = Undef

NextInsert == CallInsertQuery

SpecInsert == InitInsert /\ [][NextInsert]_vars

CallUpdateSQL ==
  /\ pc = "call" /\ fn = "updateSQL"
  /\ ret' = updateSQL(arg)
  /\ pc' = "done"
  /\ UNCHANGED <<fn, arg>>

InitModify ==
  /\ pc = "call" /\ ret = Undef
  /\ \/ fn = "updateSQL" /\ arg \in UpdateParams
     \/ fn = "deleteSQL" /\ arg \in DeleteParams

NextModify == CallUpdateSQL \/ CallDeleteSQL

SpecModify == InitModify /\ [][NextModify]_vars

CallSelectQueryMinified ==
  /\ pc = "call" /\ fn = "selectQueryMinified"
  /\ ret' = selectQueryMinified(arg)
  /\ pc' = "done"
  /\ UNCHANGED <<fn, arg>>

InitBuilds ==
  /\ pc = "call" /\ ret = Undef
  /\ fn \in {"selectQuery", "selectQueryMinified"} /\ arg \in BuildConfigs

NextBuilds == CallSelectQuery \/ CallSelectQueryMinified

SpecBuilds == InitBuilds /\ [][NextBuilds]_vars

Done(f) == pc = "done" /\ fn = f

(***************************************************************************)
(* Reading a returned string.                                              *)
(***************************************************************************)
RECURSIVE Select(_, _)
\* the tokens of s that are in toks, in order
Select(s, toks) ==
  IF Len(s) = 0 THEN <<>>
  ELSE IF s[1] \in toks THEN <<s[1]>> \o Select(Tail(s), toks)
  ELSE Select(Tail(s), toks)

\* how many times tok occurs in s
Count(s, tok) == Len(Select(s, {tok}))

\* the first place of tok in s, 0 when it does not occur
IndexOf(s, tok) ==
  IF \E i \in 1..Len(s) : s[i] = tok
    THEN CHOOSE i \in 1..Len(s) : s[i] = tok /\ \A j \in 1..(i - 1) : s[j] # tok
    ELSE 0

\* sub occurs in s as a run of consecutive tokens
Contains(s, sub) ==
  \E i \in 0..(Len(s) - Len(sub)) : \A j \in 1..Len(sub) : s[i + j] = sub[j]

(***************************************************************************)
(* C1                                                                      *)
(***************************************************************************)
\* the select-list of a returned statement: what stands between
\* SELECT [DISTINCT] and FROM
SelectListOf(s) ==
  LET i == IndexOf(s, "SELECT") + 2
  IN SubSeq(s, IF s[i] = "DISTINCT" THEN i + 2 ELSE i, IndexOf(s, "FROM") - 2)

NoBlanks(s) == Select(s, {s[i] : i \in 1..Len(s)} \ {" "})

\* the three parts of a config's select-list, each as the config renders it
ColumnsPart(config) == parsecolumns(config.columns)
SubQueriesPart(config) ==
  IF IsArr(config.subQueries) THEN SubQueryStatement(config.subQueries) ELSE <<>>
AggregatesPart(config) ==
  IF IsArr(config.aggregates)
    THEN JoinWith([i \in 1..Len(config.aggregates.a) |-> AggString(config.aggregates.a[i])],
                  CommaSp)
    ELSE <<>>

\* the parts that render something, in order, joined with ", "
PartsInOrder(config) ==
  JoinWith(FilterBoolean(<<ColumnsPart(config), SubQueriesPart(config),
                           AggregatesPart(config)>>), CommaSp)

\* C1: when a part of the select-list renders something, the select-list of the
\* returned statement is, blanks aside, the parsed columns, then the subquery
\* renderings, then the aggregate renderings; so the columns are in it whether or
\* not subQueries or aggregates are given.
C1_SelectListParts ==
  (Done("selectQuery") /\ ret.ok /\ Len(PartsInOrder(arg)) > 0) =>
    NoBlanks(SelectListOf(ret.v)) = NoBlanks(PartsInOrder(arg))

(***************************************************************************)
(* C2                                                                      *)
(***************************************************************************)
\* C2: the select-list of the returned statement is never empty, and it is `*`
\* exactly when columns, subQueries and aggregates together render nothing.
C2_StarWhenEmpty ==
  (Done("selectQuery") /\ ret.ok) =>
    /\ Len(NoBlanks(SelectListOf(ret.v))) > 0
    /\ (NoBlanks(SelectListOf(ret.v)) = <<"*">>) <=> (Len(PartsInOrder(arg)) = 0)

(***************************************************************************)
(* C3                                                                      *)
(***************************************************************************)
\* the keyword that opens each clause, in the order of the statement (ON stands
\* for the joins, whose keyword is the join type)
ClauseOrder ==
  <<"SELECT", "FROM", "ON", "WHERE", "GROUP BY", "HAVING", "ORDER BY", "LIMIT", "OFFSET">>

\* a number of limitSkip under key k: given, and its text is never empty
NumberGiven(config, k) ==
  IsObj(config.limitSkip) /\ IsNum(Get(config.limitSkip, k))

\* the clause of keyword kw has its input given, and the input renders something
ClauseGiven(config, kw) ==
  CASE kw = "ON" -> IsArr(config.joins) /\ Len(parseJoins(config.joins).v) > 0
    [] kw = "WHERE" -> IsStr(config.where) /\ Len(config.where.s) > 0
    [] kw = "GROUP BY" -> Len(parseGroupBy(config.groupBy)) > 0
    [] kw = "HAVING" -> IsStr(config.having) /\ Len(config.having.s) > 0
    [] kw = "ORDER BY" -> Len(parseSort(config.sort)) > 0
    [] kw = "LIMIT" -> NumberGiven(config, "limit")
    [] kw = "OFFSET" -> NumberGiven(config, "skip")
    [] OTHER -> TRUE

\* the clauses of s are each there when given, once, and in the fixed order
ClausesInOrder(config, s) ==
  /\ \A i \in 1..Len(ClauseOrder) :
       Count(s, ClauseOrder[i]) = (IF ClauseGiven(config, ClauseOrder[i]) THEN 1 ELSE 0)
  /\ \A i, j \in 1..Len(ClauseOrder) :
       (i < j /\ Count(s, ClauseOrder[i]) > 0 /\ Count(s, ClauseOrder[j]) > 0)
         => IndexOf(s, ClauseOrder[i]) < IndexOf(s, ClauseOrder[j])

\* C3: the returned statement holds SELECT ... FROM, then joins, WHERE, GROUP BY,
\* HAVING, ORDER BY, LIMIT, OFFSET in this order, each clause exactly when its
\* input is given and renders something.
C3_ClauseOrder ==
  (Done("selectQuery") /\ ret.ok) => ClausesInOrder(arg, ret.v)

(***************************************************************************)
(* C4                                                                      *)
(***************************************************************************)
\* s ends with tail
EndsWith(s, tail) ==
  Len(s) >= Len(tail) /\ SubSeq(s, Len(s) - Len(tail) + 1, Len(s)) = tail

\* C4: with a numeric limit and a numeric skip, 0 included, the returned
\* statement ends with ` LIMIT <limit> OFFSET <skip>`.
C4_LimitOffset ==
  (Done("selectQuery") /\ ret.ok /\ NumberGiven(arg, "limit") /\ NumberGiven(arg, "skip")) =>
    EndsWith(ret.v, <<" ", "LIMIT", " ", ToString(Get(arg.limitSkip, "limit").n),
                      " ", "OFFSET", " ", ToString(Get(arg.limitSkip, "skip").n)>>)

(***************************************************************************)
(* C7                                                                      *)
(***************************************************************************)
\* the direction values of a sort mapping, leaf by leaf, in input order
RECURSIVE SortLeaves(_)
SortLeaves(e) ==
  IF Len(e) = 0 THEN <<>>
  ELSE (IF IsObj(e[1].v) THEN [i \in 1..Len(e[1].v.e) |-> e[1].v.e[i].v]
        ELSE <<e[1].v>>) \o SortLeaves(Tail(e))

NumericSort(sort) ==
  IsObj(sort) /\ \A i \in 1..Len(SortLeaves(sort.e)) : IsNum(SortLeaves(sort.e)[i])

\* C7: for a sort mapping (flat, two-level or mixed) whose direction values are
\* all numbers, the ASC/DESC tokens of parseSort's output are, in input order,
\* one per leaf entry, ASC for the value 1 and DESC for every other number.
C7_OneTokenPerLeaf ==
  (Done("parseSort") /\ NumericSort(arg)) =>
    Select(ret.v, {"ASC", "DESC"})
      = [i \in 1..Len(SortLeaves(arg.e)) |->
           IF SortLeaves(arg.e)[i].n = 1 THEN "ASC" ELSE "DESC"]

\* a mixed mapping (a flat entry and a two-level one) with the values 1, 0 and -1
C7_Witness ==
  /\ Done("parseSort") /\ NumericSort(arg)
  /\ Len(arg.e) = 2 /\ IsNum(arg.e[1].v) /\ IsObj(arg.e[2].v)
  /\ {SortLeaves(arg.e)[i].n : i \in 1..Len(SortLeaves(arg.e))} = {-1, 0, 1}
  /\ Select(ret.v, {"ASC", "DESC"}) = <<"DESC", "ASC", "DESC">>

(***************************************************************************)
(* C5                                                                      *)
(***************************************************************************)
\* the text a value of `extra` stands for: the string itself, or the elements
\* of the sequence joined with ", "
ExtraText(x) == IF IsArr(x) THEN JoinWith(x.a, CommaSp) ELSE x.s

\* the select-list or group-by list of a parser's output (the GROUP BY keyword
\* and its blanks left out)
ListOf(s) == IF Len(s) >= 3 /\ s[2] = "GROUP BY" THEN SubSeq(s, 4, Len(s)) ELSE s

\* C5: for parsecolumns and parseGroupBy given a mapping with the key `extra`,
\* the value of `extra` is in the output verbatim (a string as it is, a
\* sequence joined with ", "), and the key name `extra` is never emitted.
C5_ExtraVerbatim ==
  ((Done("parsecolumns") \/ Done("parseGroupBy")) /\ IsObj(arg) /\ HasKey(arg, "extra")) =>
    /\ Contains(ListOf(ret.v), ExtraText(Get(arg, "extra")))
    /\ Count(ret.v, "extra") = 0

(***************************************************************************)
(* C6                                                                      *)
(***************************************************************************)
\* the comma-separated groups of a list: none in the empty string
Groups(s) == IF Len(s) = 0 THEN 0 ELSE Count(s, ",") + 1

RECURSIVE TotalColumns(_)
\* the columns of a mapping, over all its tables (`extra` is no table)
TotalColumns(e) ==
  IF Len(e) = 0 THEN 0
  ELSE (IF e[1].k # "extra" /\ IsArr(e[1].v) THEN Len(e[1].v.a) ELSE 0)
         + TotalColumns(Tail(e))

\* C6: for a sequence or a mapping of table alias to sequence (with optional
\* `extra`), the output of parsecolumns neither begins nor ends with a comma,
\* and its comma-separated groups number the columns of all the tables, plus
\* one when `extra` is present.
C6_CommaGroups ==
  (Done("parsecolumns") /\ (IsArr(arg) \/ IsObj(arg))) =>
    /\ Len(ret.v) > 0 => (ret.v[1] # "," /\ ret.v[Len(ret.v)] # ",")
    /\ Groups(ret.v) = (IF IsArr(arg) THEN Len(arg.a)
                        ELSE TotalColumns(arg.e) + (IF HasKey(arg, "extra") THEN 1 ELSE 0))

(***************************************************************************)
(* C8                                                                      *)
(***************************************************************************)
\* the joins a call was given
JoinsOf == IF fn = "parseJoins" THEN arg ELSE arg.joins

\* the keys of a descriptor other than type, on and operator
Tables(d) == FilterKeys(d.e, Reserved)

\* no usable `on`, and exactly two other entries
TwoPairs(d) == ~Truthy(Get(d, "on")) /\ Len(Tables(d)) = 2

\* ` <type> <table2> ON <table1>.<column1> <operator> <table2>.<column2>`, with
\* JOIN for an absent type and = for an absent operator
TwoPairsText(d) ==
  <<" ">> \o (IF HasKey(d, "type") THEN Get(d, "type").s ELSE <<"JOIN">>)
    \o <<" ", Tables(d)[2].k, " ", "ON", " ", Tables(d)[1].k, ".">> \o Tables(d)[1].v.s
    \o <<" ">> \o (IF HasKey(d, "operator") THEN Get(d, "operator").s ELSE <<"=">>)
    \o <<" ", Tables(d)[2].k, ".">> \o Tables(d)[2].v.s

\* C8: a descriptor without a usable `on` and with exactly two other entries is
\* rendered from its type (JOIN when absent) and its operator (= when absent),
\* with a `type` key and in the shorthand form alike.
C8_TwoPairs ==
  (Done("parseJoins") /\ IsArr(arg) /\ \A i \in 1..Len(arg.a) : TwoPairs(arg.a[i])) =>
    /\ ret.ok
    /\ \A i \in 1..Len(arg.a) : Contains(ret.v, TwoPairsText(arg.a[i]))

(***************************************************************************)
(* C9                                                                      *)
(***************************************************************************)
\* neither a truthy `on` beside at least one other key, nor exactly two other keys
Malformed(d) ==
  /\ ~(Truthy(Get(d, "on")) /\ Len(Tables(d)) >= 1)
  /\ Len(Tables(d)) # 2

\* C9: when a descriptor of the joins is malformed, parseJoins and the builders
\* given those joins throw, with a message that states the number of keys found
\* in a malformed descriptor, and return no string.
C9_MalformedThrows ==
  (pc = "done" /\ IsArr(JoinsOf) /\ \E i \in 1..Len(JoinsOf.a) : Malformed(JoinsOf.a[i])) =>
    /\ ~ret.ok
    /\ \E i \in 1..Len(JoinsOf.a) :
         Malformed(JoinsOf.a[i]) /\ Contains(ret.v, <<ToString(Len(Tables(JoinsOf.a[i])))>>)

(***************************************************************************)
(* C10                                                                     *)
(***************************************************************************)
\* insertData is absent or empty: undefined or null, a sequence of no rows, or
\* a row with no columns
EmptyInsertData(d) ==
  \/ d.t \in {"undefined", "null"}
  \/ IsArr(d) /\ Len(d.a) = 0
  \/ IsObj(d) /\ Len(d.e) = 0

\* C10: insertQuery throws, and returns no statement, when insertData is absent
\* or empty.
C10_EmptyInsertThrows ==
  (Done("insertQuery") /\ EmptyInsertData(arg.insertData)) => ~ret.ok

(***************************************************************************)
(* C11                                                                     *)
(***************************************************************************)
\* the fields of onDuplicateUpdateFields, none when it is left out
UpdateFieldsOf(params) ==
  IF IsArr(params.onDuplicateUpdateFields) THEN params.onDuplicateUpdateFields.a ELSE <<>>

\* ` ON DUPLICATE KEY UPDATE f = VALUES(f), ...` over the fields in order
DuplicateText(fields) ==
  <<" ", "ON DUPLICATE KEY UPDATE", " ">>
    \o JoinWith([i \in 1..Len(fields) |->
                   fields[i] \o <<" ", "=", " ", "VALUES", "(">> \o fields[i] \o <<")">>],
                CommaSp)

C12_UpdateFieldsUsed ==
  (Done("insertQuery") /\ ~EmptyInsertData(arg.insertData) /\ Len(UpdateFieldsOf(arg)) > 0) =>
    ret.ok /\ EndsWith(ret.v, DuplicateText(UpdateFieldsOf(arg)))

(***************************************************************************)
(* C13                                                                     *)
(***************************************************************************)
\* a required field is missing or empty
MissingOrEmpty(x) == x.t \in {"undefined", "null"} \/ (IsStr(x) /\ Len(x.s) = 0)

\* the joins of the call hold a malformed descriptor
MalformedJoins(params) ==
  IsArr(params.joins) /\ \E i \in 1..Len(params.joins.a) : Malformed(params.joins.a[i])

\* C13: when table or where is missing or empty, updateSQL and deleteSQL throw
\* the required-field error, for table before where, whatever the joins are: a
\* malformed join descriptor in the same call never shows, and no string is
\* returned.
C13_RequiredFirst ==
  (pc = "done" /\ fn \in {"updateSQL", "deleteSQL"}
     /\ (MissingOrEmpty(arg.table) \/ MissingOrEmpty(arg.where))) =>
    ret = Throw(IF MissingOrEmpty(arg.table)
                  THEN <<"The 'table' parameter is required.">>
                  ELSE <<"The 'where' parameter is required.">>)

\* updateSQL without a where and with a malformed join: the where error is thrown
C13_Witness ==
  /\ Done("updateSQL") /\ ~MissingOrEmpty(arg.table) /\ MissingOrEmpty(arg.where)
  /\ MalformedJoins(arg)
  /\ ret = Throw(<<"The 'where' parameter is required.">>)

(***************************************************************************)
(* C14                                                                     *)
(***************************************************************************)
\* the assignment list of a returned UPDATE: what stands between SET and WHERE
SetListOf(s) == SubSeq(s, IndexOf(s, "SET") + 2, IndexOf(s, "WHERE") - 2)

\* the five groups of a call as each renders alone, in the order updateData,
\* setCalculations, fromSubQuery, nullValues, defaultValues
GroupsOf(params) ==
  <<UpdateDataInfo(Default(params.updateData, Obj(<<>>))),
    Calculations(Default(params.setCalculations, Obj(<<>>))),
    Calculations(Default(params.fromSubQuery, Obj(<<>>))),
    FixedAssignments(Default(params.nullValues, Arr(<<>>)).a, "NULL"),
    FixedAssignments(Default(params.defaultValues, Arr(<<>>)).a, "DEFAULT")>>

\* C14: the assignment list of the statement updateSQL returns is the groups
\* that are not empty, in the order updateData, setCalculations, fromSubQuery,
\* nullValues, defaultValues, with one `, ` between two neighbours and none at
\* the start, at the end, or beside an empty group.
C14_GroupSeparators ==
  (Done("updateSQL") /\ ret.ok) =>
    /\ SetListOf(ret.v) = JoinWith(FilterBoolean(GroupsOf(arg)), CommaSp)
    /\ Len(SetListOf(ret.v)) > 0 =>
         /\ SetListOf(ret.v)[1] # ","
         /\ SetListOf(ret.v)[Len(SetListOf(ret.v))] \notin {",", " "}
    /\ ~Contains(SetListOf(ret.v), <<",", " ", ",">>)

\* no updateData and no fromSubQuery between groups that are there
C14_Witness ==
  /\ Done("updateSQL") /\ ret.ok
  /\ [i \in 1..5 |-> Len(GroupsOf(arg)[i]) > 0] = <<FALSE, TRUE, FALSE, TRUE, TRUE>>
  /\ SetListOf(ret.v)
       = <<"c", " ", "=", " ", "c + 1", ",", " ", "d", " ", "=", " ", "d * 2", ",", " ",
           "n", " ", "=", " ", "NULL", ",", " ", "m", " ", "=", " ", "NULL", ",", " ",
           "f", " ", "=", " ", "DEFAULT">>

(***************************************************************************)
(* C15                                                                     *)
(***************************************************************************)
\* a limit is given: a number, or a string that is not empty
LimitGiven(params) ==
  IsNum(params.limit) \/ (IsStr(params.limit) /\ Len(params.limit.s) > 0)

\* ` WHERE <where>`, the ORDER BY fragment of the sort parser, and ` LIMIT <n>`
\* when a limit is given
WhereSortLimit(params) ==
  <<" ", "WHERE", " ">> \o params.where.s \o parseSort(params.sort)
    \o (IF LimitGiven(params) THEN <<" ", "LIMIT", " ">> \o Interp(params.limit) ELSE <<>>)

\* C15: the statement updateSQL returns is `UPDATE<joins> <table> SET
\* <assignments>`, then ` WHERE <where>`, then the ORDER BY fragment of the sort
\* parser, then ` LIMIT <n>`: WHERE always, ORDER BY when the sort renders one,
\* LIMIT exactly when a limit is given.
C15_UpdateOrder ==
  (Done("updateSQL") /\ ret.ok) =>
    /\ SubSeq(ret.v, 1, IndexOf(ret.v, "SET"))
         = <<"UPDATE">> \o parseJoins(Default(arg.joins, Arr(<<>>))).v
             \o <<" ">> \o arg.table.s \o <<" ", "SET">>
    /\ Count(ret.v, "WHERE") = 1
    /\ SubSeq(ret.v, IndexOf(ret.v, "WHERE") - 1, Len(ret.v)) = WhereSortLimit(arg)
    /\ Count(ret.v, "LIMIT") = (IF LimitGiven(arg) THEN 1 ELSE 0)

(***************************************************************************)
(* C16                                                                     *)
(***************************************************************************)
\* the join clauses a call's joins render, nothing when there are none
JoinText(params) == parseJoins(Default(params.joins, Arr(<<>>))).v

\* C16: when updateSQL is given joins, the statement begins `UPDATE <table>`,
\* and the join clauses stand after the table name and before SET.
C16_TableBeforeJoins ==
  (Done("updateSQL") /\ ret.ok /\ Len(JoinText(arg)) > 0) =>
    SubSeq(ret.v, 1, IndexOf(ret.v, "SET"))
      = <<"UPDATE", " ">> \o arg.table.s \o JoinText(arg) \o <<" ", "SET">>

(***************************************************************************)
(* C17                                                                     *)
(***************************************************************************)
\* the JSON-style literal of a scalar: a string trimmed, then quoted
Literal(value) == JSONStringify(IF IsStr(value) THEN Str(Trim(value.s)) ELSE value)

\* the entries of updateData that are scalars (string, number, boolean, null)
ScalarEntries(params) ==
  IF IsObj(params.updateData)
    THEN {i \in 1..Len(params.updateData.e) :
            params.updateData.e[i].v.t \in {"string", "number", "boolean", "null"}}
    ELSE {}

\* C17: every scalar entry of updateData is in the assignment list as
\* `column = <literal>`, the literal being the JSON text of the value (a string
\* trimmed and quoted, a number or boolean bare, null as null), and the text
\* `undefined` is never emitted for it.
C17_ScalarLiterals ==
  (Done("updateSQL") /\ ret.ok) =>
    \A i \in ScalarEntries(arg) :
      /\ Contains(SetListOf(ret.v),
                  <<arg.updateData.e[i].k, " ", "=", " ">> \o Literal(arg.updateData.e[i].v))
      /\ ~Contains(SetListOf(ret.v), <<arg.updateData.e[i].k, " ", "=", " ", "undefined">>)

(***************************************************************************)
(* C18                                                                     *)
(***************************************************************************)
\* C18: the statement deleteSQL returns is `DELETE <table> FROM <table>`, then
\* the join clauses, then ` WHERE <where>`, then the ORDER BY fragment, then
\* ` LIMIT <n>`: WHERE always, the others exactly when joins, sort and limit are
\* given and render something.
C18_DeleteOrder ==
  (Done("deleteSQL") /\ ret.ok) =>
    /\ ret.v = <<"DELETE", " ">> \o arg.table.s \o <<" ", "FROM", " ">> \o arg.table.s
                 \o JoinText(arg) \o WhereSortLimit(arg)
    /\ Count(ret.v, "WHERE") = 1
    /\ Count(ret.v, "LIMIT") = (IF LimitGiven(arg) THEN 1 ELSE 0)

(***************************************************************************)
(* C19                                                                     *)
(***************************************************************************)
\* s is empty, or the keyword kw between blanks followed by at least one term
\* that is not empty
EmptyOrTerms(s, kw) ==
  \/ s = <<>>
  \/ /\ Len(s) > 3 /\ SubSeq(s, 1, 3) = <<" ", kw, " ">>
     /\ \E i \in 4..Len(s) : s[i] \notin {",", " "}

\* C19: parseGroupBy returns the empty string or ` GROUP BY ` followed by at
\* least one term, and parseSort the empty string or ` ORDER BY ` followed by at
\* least one term: neither returns the bare keyword.
C19_NoBareKeyword ==
  /\ Done("parseGroupBy") => EmptyOrTerms(ret.v, "GROUP BY")
  /\ Done("parseSort") => EmptyOrTerms(ret.v, "ORDER BY")

(***************************************************************************)
(* C20                                                                     *)
(***************************************************************************)
\* the column list of a returned INSERT: what the first parentheses hold
ColumnListOf(s) == SubSeq(s, IndexOf(s, "(") + 1, IndexOf(s, ")") - 1)

\* the text of the value tuples: after VALUES, up to ON DUPLICATE KEY UPDATE
ValuesOf(s) ==
  SubSeq(s, IndexOf(s, "VALUES") + 1,
         IF Count(s, "ON DUPLICATE KEY UPDATE") > 0
           THEN IndexOf(s, "ON DUPLICATE KEY UPDATE") - 1 ELSE Len(s))

RECURSIVE TupleSizes(_)
\* the number of elements of each parenthesized tuple of s, in order
TupleSizes(s) ==
  IF IndexOf(s, "(") = 0 THEN <<>>
  ELSE <<Groups(SubSeq(s, IndexOf(s, "(") + 1, IndexOf(s, ")") - 1))>>
         \o TupleSizes(SubSeq(s, IndexOf(s, ")") + 1, Len(s)))

\* the rows of a call, and its date fields
RowsOf(params) == IF IsArr(params.insertData) THEN params.insertData.a ELSE <<params.insertData>>
DateFieldsOf(params) == IF IsArr(params.dateFields) THEN params.dateFields.a ELSE <<>>

\* C20: in a returned statement the column list has the keys of the first (or
\* only) row followed by the date fields, there is one value tuple per row, and
\* every tuple has as many elements as the column list, whatever keys the row
\* carries.
C20_TupleSizes ==
  (Done("insertQuery") /\ ret.ok) =>
    /\ Groups(ColumnListOf(ret.v)) = Len(RowsOf(arg)[1].e) + Len(DateFieldsOf(arg))
    /\ Len(TupleSizes(ValuesOf(ret.v))) = Len(RowsOf(arg))
    /\ \A i \in 1..Len(TupleSizes(ValuesOf(ret.v))) :
         TupleSizes(ValuesOf(ret.v))[i] = Groups(ColumnListOf(ret.v))

(***************************************************************************)
(* C21                                                                     *)
(***************************************************************************)
\* C21: every statement updateSQL returns has at least one assignment between
\* SET and WHERE, also when updateData, setCalculations, fromSubQuery,
\* nullValues and defaultValues are all empty or absent.
C21_SetNotEmpty ==
  (Done("updateSQL") /\ ret.ok) => Len(NoBlanks(SetListOf(ret.v))) > 0

(***************************************************************************)
(* C22                                                                     *)
(***************************************************************************)
\* two outcomes are the same: the same returned string, or an error in both
SameOutcome(x, y) == x.ok = y.ok /\ (x.ok => x.v = y.v)

\* the outcome of the other build on the config of the call
OtherBuild == IF fn = "selectQuery" THEN selectQueryMinified(arg) ELSE selectQuery(arg)

\* C22: on every config, the readable selectQuery and the minified build give
\* the same outcome: the same returned string, or an error in both.
C22_BuildsEquivalent ==
  (pc = "done" /\ fn \in {"selectQuery", "selectQueryMinified"}) =>
    SameOutcome(ret, OtherBuild)

====
